---- MODULE Spec2Model ----
(***************************************************************************)
(* Article ingestion of the BeyondChats article system: the browser        *)
(* session of WebScraperService, the batch scrape of the oldest articles,  *)
(* the persistence loops of ScraperController.scrapeOldestArticles and of  *)
(* the command line script scrapeArticles.ts, and the articles table       *)
(* behind ArticleRepository.                                               *)
(*                                                                         *)
(* Every asynchronous function is cut at its awaits: one action is the     *)
(* code that runs between two awaits, so that two requests served by the   *)
(* same process interleave exactly where the event loop lets them.         *)
(***************************************************************************)
EXTENDS Integers, Sequences, FiniteSets, TLC

\* ---------------------------------------------------------------- bounds
\* total number of runs (HTTP requests and script executions) started
MaxStarts == 2
\* longest de-duplicated link list the listing page yields
MaxLinks == 2
\* longest link list given to the selection of the links to scrape
MaxDiscovered == 7
\* longest title found on an article page
MaxTitleLen == 501
\* longest run of text in the content of an article page
MaxTextLen == 101
\* longest content given to the repository, of all short contents
MaxShort == 3
\* most words of a long content given to the repository
MaxWords == 201
\* most writes (create and update) to one article
MaxWrites == 3
\* longest HTML source given to cleanArticleContent on its own
MaxHtmlLen == 4
\* most lines of a robots.txt
MaxRobotsLines == 3

\* ------------------------------------------------------------- universes
\* article URLs of the source site
URLs == {"u1", "u2"}
\* request slots: two overlapping HTTP requests and one script execution
Slots == {"h1", "h2", "cli"}
\* the two WebScraperService instances: the router's controller, the script
Services == {"srv", "cli"}

\* WebScraperService.browser = null
NoBrowser == 0
\* number of links scrapeOldestArticles keeps (articleLinks.slice(0, 5))
SliceLimit == 5

\* the instance a slot works on: the router builds one controller for all
\* requests, main() builds its own service
ServiceOf(r) == IF r = "cli" THEN "cli" ELSE "srv"

\* title the extractor reads on the page of a URL
TitleOf(u) == IF u = "u1" THEN "t1" ELSE "t2"

\* what scrapeArticleContent hands back when it yields no candidate
NoResult == [title |-> "", url |-> ""]

\* the order in which the site lists its articles
SiteOrder == <<"u1", "u2">>

\* the sub-list of s made of the positions in keep
RECURSIVE Pick(_, _)
Pick(s, keep) ==
    IF s = <<>> THEN <<>>
    ELSE IF Len(s) \in keep THEN Append(Pick(SubSeq(s, 1, Len(s) - 1), keep), s[Len(s)])
    ELSE Pick(SubSeq(s, 1, Len(s) - 1), keep)

\* what extractArticleLinks can return: links of the site in site order,
\* without duplicates ([...new Set(links)]), at most MaxLinks of them
LinkLists ==
    {Pick(SiteOrder, keep) : keep \in {k \in SUBSET (1..Len(SiteOrder)) :
                                         Cardinality(k) <= MaxLinks}}

Min(a, b) == IF a < b THEN a ELSE b

\* a selection without the slice
LinksToScrapeAll(articleLinks) == articleLinks

\* articleLinks.slice(0, 5)
LinksToScrape(articleLinks) == SubSeq(articleLinks, 1, Min(SliceLimit, Len(articleLinks)))

VARIABLES
    articles,   \* rows of the articles table
    browser,    \* WebScraperService.browser of each instance
    live,       \* browser processes launched and not yet closed
    run,        \* per slot: position and locals of the request / script run
    starts,     \* number of runs started so far
    hist,       \* what the last finished run did, for a run that repeats it
    overlap,    \* scenario: runs may start while another run is under way
    calc        \* a single function under evaluation: its input and its result

vars == <<articles, browser, live, run, starts, hist, overlap, calc>>

\* no single function is under evaluation
NoCalc == [f |-> "none"]

\* ------------------------------------------------------------ the store
\* createTables.ts: id VARCHAR(36) PRIMARY KEY DEFAULT (UUID()); the key is
\* not an AUTO_INCREMENT column
AutoIncrementId == FALSE

\* the id the server gives a new row (a UUID; here the next unused number)
NewId(rows) == Cardinality(rows) + 1

\* no article (null)
NoRow == [id |-> 0, url |-> "", title |-> ""]

\* rows matching WHERE url = ?
RowsByUrl(rows, u) == {row \in rows : row.url = u}

\* an articles table whose url column carries no UNIQUE constraint
InsertRowNoUnique(rows, data) ==
    LET row == [id |-> NewId(rows), url |-> data.url, title |-> data.title]
    IN [rows |-> rows \cup {row}, err |-> "",
        insertId |-> IF AutoIncrementId THEN row.id ELSE 0]

\* INSERT INTO articles: url is NOT NULL UNIQUE, so a second row of the same
\* url is rejected; insertId of the reply is the AUTO_INCREMENT value
\* generated, 0 when the table has no such column
InsertRow(rows, data) ==
    IF RowsByUrl(rows, data.url) # {}
    THEN [rows |-> rows, err |-> "ER_DUP_ENTRY", insertId |-> 0]
    ELSE LET row == [id |-> NewId(rows), url |-> data.url, title |-> data.title]
         IN [rows |-> rows \cup {row}, err |-> "",
             insertId |-> IF AutoIncrementId THEN row.id ELSE 0]

\* ArticleRepository.create: the INSERT, the insertId test, findById
RepoCreate(rows, data, dbOk) ==
    IF ~dbOk
    THEN [rows |-> rows, ok |-> FALSE, error |-> "QUERY_FAILED", article |-> NoRow]
    ELSE LET ins == InsertRow(rows, data)
         IN IF ins.err # ""
            THEN [rows |-> rows, ok |-> FALSE, error |-> ins.err, article |-> NoRow]
            ELSE IF ins.insertId = 0
            THEN [rows |-> ins.rows, ok |-> FALSE, error |-> "NO_ID", article |-> NoRow]
            ELSE [rows |-> ins.rows, ok |-> TRUE, error |-> "",
                  article |-> CHOOSE row \in ins.rows : row.id = ins.insertId]

\* ArticleRepository.findByUrl: results[0], or null
FindByUrl(rows, u) ==
    IF RowsByUrl(rows, u) = {} THEN NoRow
    ELSE CHOOSE row \in RowsByUrl(rows, u) : TRUE

\* --------------------------------------------------------- run records
\* what a later run is compared with, when runs come one after the other:
\* a batch run that ended with its counts leaves its links, its articles and
\* its saved count; any other run leaves nothing
NoHistory == [op |-> "none", links |-> <<>>, scraped |-> <<>>, saved |-> 0]

NoResp == [status |-> 0, success |-> FALSE, message |-> ""]

IdleRun ==
    [pc |-> "idle", op |-> "none", url |-> "",
     b |-> NoBrowser, ab |-> NoBrowser, h |-> NoBrowser, ctx |-> "",
     page |-> FALSE, apage |-> FALSE,
     links |-> <<>>, i |-> 1, scraped |-> <<>>, cur |-> NoResult,
     k |-> 1, savedArticles |-> <<>>, errors |-> <<>>,
     savedCount |-> 0, skippedCount |-> 0, errorCount |-> 0,
     resp |-> NoResp,
     launched |-> FALSE, loaded |-> FALSE, fatal |-> "", outcomes |-> <<>>,
     waited |-> TRUE, robots |-> "unchecked", cause |-> "",
     dups |-> 0, wrote |-> 0, seen |-> <<>>, before |-> NoHistory]

Active(rec) == rec.pc \notin {"idle", "done"}

\* a finished run keeps its results and drops its locals
Canon(rec) ==
    IF rec.pc = "done"
    THEN [rec EXCEPT !.b = NoBrowser, !.ab = NoBrowser, !.h = NoBrowser, !.ctx = "",
                     !.cur = NoResult, !.i = 1, !.k = 1]
    ELSE rec

\* every query of the run reached the database
NoOutage(rec) == \A j \in 1..Len(rec.errors) : rec.errors[j].error # "QUERY_FAILED"

\* what a later run can be compared with: the last batch run, if it ended with
\* its counts, alone, and with the database answering
Summary(rec) ==
    IF ~overlap /\ rec.resp.message \in {"processed", "summary"} /\ NoOutage(rec)
    THEN [op |-> rec.op, links |-> rec.seen, scraped |-> rec.scraped,
          saved |-> rec.resp.saved]
    ELSE NoHistory

\* the records after slot r stepped to record new: the answer of a finished
\* run is visible until the next step of any run
Stepped(r, new) ==
    [q \in Slots |-> IF q = r THEN Canon(new)
                     ELSE IF run[q].pc = "done" THEN IdleRun
                     ELSE run[q]]

\* the step of slot r ends in record new; a finished run enters the history,
\* together with the history it found
Commit(r, new) ==
    /\ run' = Stepped(r, new)
    /\ hist' = IF new.pc = "done" THEN Summary(new) ELSE hist
    /\ UNCHANGED <<overlap, calc>>

Init ==
    /\ articles = {}
    /\ browser = [s \in Services |-> NoBrowser]
    /\ live = {}
    /\ run = [r \in Slots |-> IdleRun]
    /\ starts = 0
    /\ hist = NoHistory
    /\ overlap \in BOOLEAN
    /\ calc = NoCalc

\* script, catch of main(): process.exit(1) ends the process at once, the
\* finally block is not run
ScriptExit(rec) ==
    [rec EXCEPT !.pc = "done",
                !.resp = [status |-> 1, success |-> FALSE, message |-> "script failed"]]

\* ------------------------------------------------------------- starting
OthersIdle(r) == \A q \in Slots \ {r} : ~Active(run[q])

\* a run starts after the others have finished or, in the overlapping
\* scenario, as the second of two requests that arrive together: while one
\* other run is under way and no run has finished yet. It remembers the
\* history it found.
StartRecord(r, rec) ==
    /\ starts < MaxStarts
    /\ ~Active(run[r])
    /\ \/ OthersIdle(r)
       \/ /\ overlap
          /\ \E q \in Slots \ {r} : ~Active(run[q])
          /\ starts = Cardinality({q \in Slots : Active(run[q])})
    /\ starts' = starts + 1
    /\ UNCHANGED <<overlap, calc>>
    /\ LET mine == [rec EXCEPT !.before = hist]
       IN /\ run' = [q \in Slots |->
                       IF q = r THEN Canon(mine)
                       ELSE IF Active(run[q]) THEN run[q]
                       ELSE IdleRun]
          /\ hist' = IF mine.pc = "done" THEN Summary(mine) ELSE hist

\* POST /api/scraper/oldest: ScraperController.scrapeOldestArticles up to the
\* call of scraperService.scrapeOldestArticles (robotsAllowed is the literal
\* true). Slot h2 is taken only while h1 is busy.
StartOldest(r) ==
    /\ r \in {"h1", "h2"}
    /\ r = "h2" => Active(run["h1"])
    /\ StartRecord(r, [IdleRun EXCEPT !.pc = "soa_init", !.op = "oldest"])
    /\ UNCHANGED <<articles, browser, live>>

\* WebScraperService.checkRobotsTxt: false when robots.txt holds both
\* 'user-agent: *' and 'disallow: /', true otherwise and when the request
\* fails
checkRobotsTxt(fetched, userAgentSection, disallowAll) ==
    IF fetched /\ userAgentSection /\ disallowAll THEN "disallowed" ELSE "allowed"

\* scrapeArticles.ts main(): initializeDatabaseSetup (raising ends the
\* process in the catch), checkRobotsTxt (its answer is only logged), then
\* the call of scrapeOldestArticles
StartScript(r) ==
    /\ r = "cli"
    /\ \E dbUp \in BOOLEAN, fetched \in BOOLEAN, userAgentSection \in BOOLEAN,
          disallowAll \in BOOLEAN :
         StartRecord(r,
            IF dbUp
            THEN [IdleRun EXCEPT !.pc = "soa_init", !.op = "cli",
                                 !.robots = checkRobotsTxt(fetched, userAgentSection,
                                                           disallowAll)]
            ELSE ScriptExit([IdleRun EXCEPT !.op = "cli"]))
    /\ UNCHANGED <<articles, browser, live>>

\* --------------------------------------------------- WebScraperService
\* the smallest handle no variable holds
Held ==
    live \cup {browser[s] : s \in Services}
         \cup UNION {{run[q].b, run[q].ab, run[q].h} : q \in Slots}

FreshHandle == CHOOSE n \in 1..(Cardinality(Held) + 1) : n \notin Held

\* initBrowser, up to its await: the existing handle, or a launch
InitBrowser(r) ==
    /\ run[r].pc \in {"soa_init", "sac_init"}
    /\ LET s == ServiceOf(r)
           rec == run[r]
       IN IF browser[s] # NoBrowser
          THEN Commit(r, IF rec.pc = "soa_init"
                         THEN [rec EXCEPT !.b = browser[s], !.pc = "soa_page"]
                         ELSE [rec EXCEPT !.ab = browser[s], !.pc = "sac_load"])
          ELSE Commit(r, [rec EXCEPT !.pc = IF rec.pc = "soa_init" THEN "soa_launch"
                                           ELSE "sac_launch"])
    /\ UNCHANGED <<articles, browser, live, starts>>

\* ------------------------------------------------ what the callers answer
\* controller, res.status(200): scraped / saved / errors of the run
ControllerOk(rec) ==
    [rec EXCEPT !.pc = "done",
                !.resp = [status |-> 200, success |-> TRUE, message |-> "processed",
                          scraped |-> Len(rec.scraped),
                          saved |-> Len(rec.savedArticles),
                          errors |-> Len(rec.errors)]]

\* controller, res.status(404): 'No articles found to scrape'
ControllerNone(rec) ==
    [rec EXCEPT !.pc = "done",
                !.resp = [status |-> 404, success |-> FALSE, message |-> "none found"]]

\* controller, res.status(500) of the outer catch
ControllerFail(rec) ==
    [rec EXCEPT !.pc = "done",
                !.resp = [status |-> 500, success |-> FALSE, message |-> "internal error"]]

\* script, 'No articles found to scrape' and return: on to the finally block
ScriptNone(rec) ==
    [rec EXCEPT !.pc = "close", !.ctx = "script",
                !.resp = [status |-> 0, success |-> FALSE, message |-> "none found"]]

\* script, the summary line; findAll is queried when something was saved
ScriptSummary(rec, showOk) ==
    IF rec.savedCount > 0 /\ ~showOk
    THEN ScriptExit(rec)
    ELSE [rec EXCEPT !.pc = "close", !.ctx = "script",
                     !.resp = [status |-> 0, success |-> TRUE, message |-> "summary",
                               scraped |-> Len(rec.scraped),
                               saved |-> rec.savedCount,
                               skipped |-> rec.skippedCount,
                               errors |-> rec.errorCount]]

\* single-URL answers: 200 already exists, 404 no content, 201 saved
SingleExists(rec) ==
    [rec EXCEPT !.pc = "done",
                !.resp = [status |-> 200, success |-> TRUE, message |-> "exists"]]

SingleNone(rec) ==
    [rec EXCEPT !.pc = "done",
                !.resp = [status |-> 404, success |-> FALSE, message |-> "no content"]]

SingleSaved(rec) ==
    [rec EXCEPT !.pc = "done",
                !.resp = [status |-> 201, success |-> TRUE, message |-> "saved"]]

\* after closeBrowser returned: the answer of the place that called it
AfterClose(rec) ==
    IF rec.ctx = "ok" THEN ControllerOk(rec)
    ELSE IF rec.ctx = "catch" THEN ControllerFail(rec)
    ELSE IF rec.ctx = "single" THEN SingleSaved(rec)
    ELSE [rec EXCEPT !.pc = "done"]

\* a controller without its outer catch: the rejection reaches the router
AfterScrapeRaisedUncaught(rec) ==
    IF rec.op = "cli" THEN ScriptExit([rec EXCEPT !.scraped = <<>>])
    ELSE [rec EXCEPT !.pc = "done", !.scraped = <<>>,
                     !.resp = [status |-> 0, success |-> FALSE, message |-> "unhandled"]]

\* scrapeOldestArticles raised (its scrapedArticles are lost): the
\* controller's catch closes the browser, the script's catch exits
AfterScrapeRaised(rec) ==
    IF rec.op = "cli" THEN ScriptExit([rec EXCEPT !.scraped = <<>>])
    ELSE [rec EXCEPT !.pc = "close", !.ctx = "catch", !.scraped = <<>>]

\* scrapeOldestArticles returned scrapedArticles
AfterScrapeReturned(rec) ==
    IF Len(rec.scraped) = 0
    THEN IF rec.op = "cli" THEN ScriptNone(rec) ELSE ControllerNone(rec)
    ELSE [rec EXCEPT !.pc = "persist_find", !.k = 1]

\* a for loop without its try/catch: what scrapeArticleContent raises ends
\* scrapeOldestArticles
AfterContentAborts(rec, result, raised) ==
    LET clean == [rec EXCEPT !.ab = NoBrowser, !.cur = NoResult,
                    !.outcomes = IF rec.op = "single" THEN @
                                 ELSE Append(@, IF raised THEN "raised"
                                                ELSE IF result = NoResult THEN "null"
                                                ELSE "candidate")]
    IN IF rec.op = "single"
       THEN IF raised THEN [clean EXCEPT !.pc = "close", !.ctx = "catch"]
            ELSE IF result = NoResult THEN SingleNone(clean)
            ELSE [clean EXCEPT !.pc = "single_create", !.cur = result]
       ELSE IF raised THEN [clean EXCEPT !.fatal = "article", !.pc = "soa_finally"]
       ELSE [clean EXCEPT
               !.scraped = IF result # NoResult THEN Append(@, result) ELSE @,
               !.i = @ + 1,
               !.waited = ~raised,
               !.pc = IF rec.i < Len(rec.links) THEN "sac_init" ELSE "soa_finally"]

\* scrapeArticleContent is over (result, or raised out of its finally): the
\* for loop of scrapeOldestArticles goes on, scrapeSingleArticle decides; the
\* 1000 ms wait is the last statement of the try block, after the call
\* returned (waited), and is skipped when the call raised
AfterContent(rec, result, raised) ==
    LET clean == [rec EXCEPT !.ab = NoBrowser, !.cur = NoResult,
                    !.outcomes = IF rec.op = "single" THEN @
                                 ELSE Append(@, IF raised THEN "raised"
                                                ELSE IF result = NoResult THEN "null"
                                                ELSE "candidate")]
    IN IF rec.op = "single"
       THEN IF raised THEN [clean EXCEPT !.pc = "close", !.ctx = "catch"]
            ELSE IF result = NoResult THEN SingleNone(clean)
            ELSE [clean EXCEPT !.pc = "single_create", !.cur = result]
       ELSE [clean EXCEPT
               !.scraped = IF ~raised /\ result # NoResult THEN Append(@, result) ELSE @,
               !.i = @ + 1,
               !.waited = ~raised,
               !.pc = IF rec.i < Len(rec.links) THEN "sac_init" ELSE "soa_finally"]

\* a finally block that does not close the page
ClosePageSkipped(rec, field) == rec

\* the finally blocks: if (page) await page.close(); the page is gone when
\* close() resolves and also when it rejects (its target is closed already)
ClosePage(rec, field) ==
    IF field = "page" THEN [rec EXCEPT !.page = FALSE] ELSE [rec EXCEPT !.apage = FALSE]

\* why scrapeArticle gave no candidate (kept for single-URL requests)
Because(rec, cause) == [rec EXCEPT !.cause = IF rec.op = "single" THEN cause ELSE @]

\* a scrapeArticleContent without its catch block: the error goes to the caller
Uncaught(rec, cause) == AfterContent(Because(rec, cause), NoResult, TRUE)

\* the catch block of scrapeArticleContent: the error is logged, null returned
Caught(rec, cause) == AfterContent(Because(rec, cause), NoResult, FALSE)

\* puppeteer.launch resolved or rejected
Launch(r) ==
    /\ run[r].pc \in {"soa_launch", "sac_launch"}
    /\ LET s == ServiceOf(r)
           rec == run[r]
           h == FreshHandle
       IN \E ok \in BOOLEAN :
            IF ok
            THEN /\ browser' = [browser EXCEPT ![s] = h]
                 /\ live' = live \cup {h}
                 /\ Commit(r, IF rec.pc = "soa_launch"
                              THEN [rec EXCEPT !.b = h, !.launched = TRUE, !.pc = "soa_page"]
                              ELSE [rec EXCEPT !.ab = h, !.launched = TRUE, !.pc = "sac_load"])
            ELSE /\ UNCHANGED <<browser, live>>
                 /\ Commit(r, IF rec.pc = "soa_launch"
                              THEN [rec EXCEPT !.fatal = "launch", !.pc = "soa_finally"]
                              ELSE Caught(rec, "launch"))
    /\ UNCHANGED <<articles, starts>>

\* scrapeOldestArticles from browser.newPage() to the selection: the
\* listing page, the last page when findLastPage names one, the links
LoadListing(r) ==
    /\ run[r].pc = "soa_page"
    /\ LET rec == run[r]
       IN IF rec.b \notin live
          THEN Commit(r, [rec EXCEPT !.fatal = "page", !.pc = "soa_finally"])
          ELSE \E baseOk \in BOOLEAN, lastPage \in {"none", "ok", "fail"},
                  articleLinks \in LinkLists :
                 IF ~baseOk
                 THEN Commit(r, [rec EXCEPT !.page = TRUE, !.fatal = "navigation",
                                            !.pc = "soa_finally"])
                 ELSE IF lastPage = "fail"
                 THEN Commit(r, [rec EXCEPT !.page = TRUE, !.loaded = TRUE,
                                            !.fatal = "last page", !.pc = "soa_finally"])
                 ELSE LET sel == LinksToScrape(articleLinks)
                      IN Commit(r, [rec EXCEPT !.page = TRUE, !.loaded = TRUE,
                                      !.links = sel, !.i = 1,
                                      !.seen = IF overlap THEN <<>> ELSE sel,
                                      !.pc = IF Len(sel) > 0 THEN "sac_init"
                                             ELSE "soa_finally"])
    /\ UNCHANGED <<articles, browser, live, starts>>

\* what scrapeArticleContent makes of the page it sees: null for an
\* incomplete page, for cleaned content under 100 characters and for a
\* failed navigation (the catch), a candidate otherwise
Extracted(u, seen) ==
    IF seen = "good" THEN [title |-> TitleOf(u), url |-> u] ELSE NoResult

\* scrapeArticleContent from browser.newPage() on: newPage on a closed
\* browser raises into the catch (no page to close); otherwise the page is
\* loaded and read, and the finally block closes it, which may raise
LoadArticle(r) ==
    /\ run[r].pc = "sac_load"
    /\ LET rec == run[r]
           u == IF rec.op = "single" THEN rec.url ELSE rec.links[rec.i]
       IN IF rec.ab \notin live
          THEN Commit(r, Caught(rec, "closed browser"))
          ELSE \E seen \in {"good", "short", "empty", "navfail"}, closeOk \in BOOLEAN :
                 LET opened == [rec EXCEPT !.apage = TRUE]
                     closed == ClosePage(opened, "apage")
                 IN Commit(r, IF ~closeOk
                              THEN AfterContent(Because(closed, "page close"), NoResult, TRUE)
                              ELSE IF seen = "navfail" THEN Caught(closed, seen)
                              ELSE IF seen = "good"
                              THEN AfterContent(closed, Extracted(u, seen), FALSE)
                              ELSE AfterContent(Because(closed, seen), Extracted(u, seen), FALSE))
    /\ UNCHANGED <<articles, browser, live, starts>>

\* the end of scrapeOldestArticles: return or rethrow, through page.close()
CloseListingPage(r) ==
    /\ run[r].pc = "soa_finally"
    /\ LET rec == [ClosePage(run[r], "page") EXCEPT !.b = NoBrowser,
                                 !.links = <<>>, !.i = 1, !.outcomes = <<>>,
                                 !.waited = TRUE]
       IN \E ok \in BOOLEAN :
            Commit(r, IF run[r].fatal # "" THEN AfterScrapeRaised(rec)
                      ELSE IF run[r].page /\ ~ok
                      THEN AfterScrapeRaised([rec EXCEPT !.fatal = "page close"])
                      ELSE AfterScrapeReturned(rec))
    /\ UNCHANGED <<articles, browser, live, starts>>

\* ------------------------------------------------- the persistence loops
\* the for loop over scrapedArticles moves on to the next article, or ends
NextArticle(rec, showOk) ==
    IF rec.k < Len(rec.scraped)
    THEN [rec EXCEPT !.k = @ + 1, !.pc = "persist_find", !.cur = NoResult]
    ELSE IF rec.op = "cli" THEN ScriptSummary([rec EXCEPT !.cur = NoResult], showOk)
    ELSE [rec EXCEPT !.pc = "close", !.ctx = "ok", !.cur = NoResult]

\* a catch that only logs
RecordErrorDropped(rec, data, cause) == rec

\* the catch of the loop body: an entry of errors in the controller; in the
\* script errorCount++ and the logged line, kept in errors as well
RecordError(rec, data, cause) ==
    LET entry == [title |-> data.title, url |-> data.url, error |-> cause]
    IN IF rec.op = "cli"
       THEN [rec EXCEPT !.errorCount = @ + 1, !.errors = Append(@, entry)]
       ELSE [rec EXCEPT !.errors = Append(@, entry)]

\* 'Article already exists': savedArticles.push(existingArticle) in the
\* controller, skippedCount++ in the script
RecordExisting(rec, row) ==
    IF rec.op = "cli"
    THEN [rec EXCEPT !.skippedCount = @ + 1, !.dups = @ + 1]
    ELSE [rec EXCEPT !.savedArticles = Append(@, row), !.dups = @ + 1]

\* 'Saved article': savedArticles.push(savedArticle) / savedCount++
RecordSaved(rec, row) ==
    IF rec.op = "cli"
    THEN [rec EXCEPT !.savedCount = @ + 1]
    ELSE [rec EXCEPT !.savedArticles = Append(@, row)]

\* loop body up to the answer of findByUrl
PersistFind(r) ==
    /\ run[r].pc = "persist_find"
    /\ LET rec == run[r]
           data == rec.scraped[rec.k]
           row == FindByUrl(articles, data.url)
       IN \E dbOk \in BOOLEAN, showOk \in BOOLEAN :
            Commit(r, IF ~dbOk
                      THEN NextArticle(RecordError(rec, data, "QUERY_FAILED"), showOk)
                      ELSE IF row # NoRow
                      THEN NextArticle(RecordExisting(rec, row), showOk)
                      ELSE [rec EXCEPT !.pc = "persist_create"])
    /\ UNCHANGED <<articles, browser, live, starts>>

\* loop body from articleRepository.create on
PersistCreate(r) ==
    /\ run[r].pc = "persist_create"
    /\ LET rec == run[r]
           data == rec.scraped[rec.k]
       IN \E dbOk \in BOOLEAN, showOk \in BOOLEAN :
            LET out == RepoCreate(articles, data, dbOk)
                cnt == [rec EXCEPT !.wrote = @ + Cardinality(out.rows \ articles)]
            IN /\ articles' = out.rows
               /\ Commit(r, IF out.ok
                            THEN NextArticle(RecordSaved(cnt, out.article), showOk)
                            ELSE NextArticle(RecordError(cnt, data, out.error), showOk))
    /\ UNCHANGED <<browser, live, starts>>

\* ------------------------------------------------------ closeBrowser
\* closeBrowser up to its await: nothing to do, or browser.close() begins
CloseBrowser(r) ==
    /\ run[r].pc = "close"
    /\ LET s == ServiceOf(r)
           rec == run[r]
       IN IF browser[s] = NoBrowser
          THEN Commit(r, AfterClose(rec))
          ELSE Commit(r, [rec EXCEPT !.pc = "closing", !.h = browser[s]])
    /\ UNCHANGED <<articles, browser, live, starts>>

\* a closeBrowser that closes the process and keeps the handle in the field
BrowserClosedKeepsHandle(r) ==
    /\ run[r].pc = "closing"
    /\ live' = live \ {run[r].h}
    /\ browser' = browser
    /\ Commit(r, AfterClose([run[r] EXCEPT !.h = NoBrowser]))
    /\ UNCHANGED <<articles, starts>>

\* browser.close() resolved: this.browser = null
BrowserClosed(r) ==
    /\ run[r].pc = "closing"
    /\ live' = live \ {run[r].h}
    /\ browser' = [browser EXCEPT ![ServiceOf(r)] = NoBrowser]
    /\ Commit(r, AfterClose([run[r] EXCEPT !.h = NoBrowser]))
    /\ UNCHANGED <<articles, starts>>

\* ------------------------------------------------ single-URL ingestion
\* POST /api/scraper/single: scrapeSingleArticle up to findByUrl; a body
\* without a well-formed url is answered 400
StartSingle(r) ==
    /\ r \in {"h1", "h2"}
    /\ r = "h2" => Active(run["h1"])
    /\ \E u \in URLs \cup {"not a url"} :
         StartRecord(r,
            IF u \in URLs
            THEN [IdleRun EXCEPT !.pc = "single_find", !.op = "single", !.url = u]
            ELSE [IdleRun EXCEPT !.pc = "done", !.op = "single", !.url = u,
                    !.resp = [status |-> 400, success |-> FALSE, message |-> "bad url"]])
    /\ UNCHANGED <<articles, browser, live>>

\* the answer of findByUrl in scrapeSingleArticle
SingleFind(r) ==
    /\ run[r].pc = "single_find"
    /\ LET rec == run[r]
       IN \E dbOk \in BOOLEAN :
            Commit(r, IF ~dbOk THEN [rec EXCEPT !.pc = "close", !.ctx = "catch"]
                      ELSE IF FindByUrl(articles, rec.url) # NoRow
                      THEN SingleExists([rec EXCEPT !.dups = @ + 1])
                      ELSE [rec EXCEPT !.pc = "sac_init"])
    /\ UNCHANGED <<articles, browser, live, starts>>

\* articleRepository.create(scrapedArticle) in scrapeSingleArticle
SingleCreate(r) ==
    /\ run[r].pc = "single_create"
    /\ LET rec == run[r]
       IN \E dbOk \in BOOLEAN :
            LET out == RepoCreate(articles, rec.cur, dbOk)
                cnt == [rec EXCEPT !.wrote = @ + Cardinality(out.rows \ articles),
                                   !.cur = NoResult]
            IN /\ articles' = out.rows
               /\ Commit(r, IF out.ok
                            THEN [cnt EXCEPT !.pc = "close", !.ctx = "single",
                                             !.savedArticles = <<out.article>>]
                            ELSE [cnt EXCEPT !.pc = "close", !.ctx = "catch"])
    /\ UNCHANGED <<browser, live, starts>>

\* ------------------------------------------------------- specification
Next ==
    \E r \in Slots :
        \/ StartOldest(r)
        \/ StartScript(r)
        \/ StartSingle(r)
        \/ InitBrowser(r)
        \/ Launch(r)
        \/ LoadListing(r)
        \/ LoadArticle(r)
        \/ CloseListingPage(r)
        \/ PersistFind(r)
        \/ PersistCreate(r)
        \/ CloseBrowser(r)
        \/ BrowserClosed(r)
        \/ SingleFind(r)
        \/ SingleCreate(r)

Spec == Init /\ [][Next]_vars

\* ------------------------------------------------------------- claims
BatchOps == {"oldest", "cli"}

Finished(rec) == rec.pc = "done"

\* the run ended with its counts: the 200 answer, the script's summary line
Counted(rec) == Finished(rec) /\ rec.resp.message \in {"processed", "summary"}

\* C1: every batch run that launched the browser has closed it
\* (WebScraperService.browser is null) when the run returns or the process
\* exits, on every exit path.
C1_BrowserClosedAtReturn ==
    \A r \in Slots :
        (Finished(run[r]) /\ run[r].op \in BatchOps /\ run[r].launched /\ OthersIdle(r))
            => browser[ServiceOf(r)] = NoBrowser

\* C2: in every reachable state, overlapping runs included, the articles
\* table holds at most one row per source URL.
C2_OneRowPerUrl ==
    \A u \in URLs : Cardinality(RowsByUrl(articles, u)) <= 1

\* two runs passed findByUrl for the same URL before either created it: the
\* second INSERT was rejected
C2_Witness ==
    \E r \in Slots : \E j \in 1..Len(run[r].errors) :
        /\ run[r].errors[j].error = "ER_DUP_ENTRY"
        /\ Cardinality(RowsByUrl(articles, run[r].errors[j].url)) = 1

\* C3: an INSERT rejected because the URL already exists is recorded as
\* "already exists", never as an entry of the run's errors.
C3_DuplicateIsNotAnError ==
    \A r \in Slots : \A j \in 1..Len(run[r].errors) :
        run[r].errors[j].error # "ER_DUP_ENTRY"

\* C4: a batch run that ends with its counts reports
\* scraped = saved + skipped as duplicates + errors.
C4_CountsAddUp ==
    \A r \in Slots :
        Counted(run[r]) =>
            run[r].resp.scraped = run[r].resp.saved + run[r].dups + run[r].resp.errors

\* C5: a batch run that repeats the previous one (same entry point, same
\* links, same extracted articles, nothing in between, the database
\* answering every query of both) reports 0 saved, as
\* many duplicates as the previous run saved, and writes no row.
C5_RerunSavesNothing ==
    \A r \in Slots :
        LET rec == run[r]
        IN (/\ Counted(rec) /\ NoOutage(rec)
            /\ rec.before # NoHistory
            /\ rec.before.op = rec.op
            /\ rec.before.links = rec.seen
            /\ rec.before.scraped = rec.scraped)
           => /\ rec.resp.saved = 0
              /\ rec.dups = rec.before.saved
              /\ rec.wrote = 0

\* articles the run recorded as newly saved
NewlySaved(rec) ==
    IF rec.op = "cli" THEN rec.savedCount ELSE Len(rec.savedArticles) - rec.dups

\* C6: create on a URL that is not stored inserts one row and returns it, and
\* the run records the article as saved: the rows a run has written are the
\* articles it has recorded as saved.
C6_InsertedIsSaved ==
    \A r \in Slots :
        run[r].op \in BatchOps => run[r].wrote = NewlySaved(run[r])

\* C7: when the browser launch fails at the start of a batch run, nothing is
\* scraped or written and the run ends with a failure answer (500 from the
\* controller, exit code 1 from the script), not with an escaping exception.
C7_LaunchFailureReported ==
    \A r \in Slots :
        LET rec == run[r]
        IN (rec.op \in BatchOps /\ rec.fatal = "launch")
           => /\ rec.pc \in {"soa_finally", "close", "closing", "done"}
              /\ rec.scraped = <<>> /\ rec.savedArticles = <<>> /\ rec.wrote = 0
              /\ Finished(rec) =>
                    /\ ~rec.resp.success
                    /\ rec.resp.status = IF rec.op = "cli" THEN 1 ELSE 500
                    /\ rec.resp.message \in {"internal error", "script failed"}

C7_Witness ==
    \E r \in Slots :
        /\ run[r].op = "oldest" /\ Finished(run[r]) /\ run[r].fatal = "launch"
        /\ run[r].resp.status = 500

\* the candidates of the links whose extraction yielded one, in order
RECURSIVE Candidates(_, _)
Candidates(links, outcomes) ==
    IF outcomes = <<>> THEN <<>>
    ELSE LET n == Len(outcomes)
             rest == Candidates(links, SubSeq(outcomes, 1, n - 1))
         IN IF outcomes[n] = "candidate"
            THEN Append(rest, [title |-> TitleOf(links[n]), url |-> links[n]])
            ELSE rest

\* C8: in scrapeOldestArticles no failure of one article's extraction ends
\* the batch: inside the loop every earlier link has its outcome, at the end
\* of the loop every selected link has been attempted and the articles
\* extracted are all there, and the method raises only for what happened
\* before the loop.
C8_ArticleFailureIsolated ==
    \A r \in Slots :
        LET rec == run[r]
        IN /\ (rec.op \in BatchOps /\ rec.pc \in {"sac_init", "sac_launch", "sac_load"})
                => /\ rec.fatal = ""
                   /\ rec.i \in 1..Len(rec.links)
                   /\ Len(rec.outcomes) = rec.i - 1
                   /\ rec.scraped = Candidates(rec.links, rec.outcomes)
           /\ rec.pc = "soa_finally"
                => IF rec.fatal = ""
                   THEN /\ Len(rec.outcomes) = Len(rec.links)
                        /\ rec.scraped = Candidates(rec.links, rec.outcomes)
                   ELSE rec.outcomes = <<>> /\ rec.scraped = <<>>

\* the first article's extraction raised, the second was attempted and
\* extracted
C8_Witness ==
    \E r \in Slots :
        /\ run[r].pc = "soa_finally" /\ run[r].fatal = ""
        /\ run[r].outcomes = <<"raised", "candidate">>
        /\ Len(run[r].scraped) = 1

StoreCauses == {"QUERY_FAILED", "ER_DUP_ENTRY", "NO_ID"}

\* articles the persistence loop has dealt with
Handled(rec) ==
    IF rec.op = "cli" THEN rec.savedCount + rec.skippedCount + rec.errorCount
    ELSE Len(rec.savedArticles) + Len(rec.errors)

\* the state part of C9: in the persistence loop every article handled so far
\* is counted as saved, existing or failed, each error entry carries the
\* title and URL of one scraped article and the cause, no article has two
\* entries, and a store failure never reaches the outer catch.
C9_LoopState ==
    \A r \in Slots :
        LET rec == run[r]
            handled == Handled(rec)
        IN rec.op \in BatchOps =>
            /\ rec.pc \in {"persist_find", "persist_create"}
                 => rec.k \in 1..Len(rec.scraped) /\ handled = rec.k - 1
            /\ (rec.pc \in {"close", "closing"} /\ rec.ctx \in {"ok", "script"})
                 => handled = Len(rec.scraped)
            /\ Counted(rec) => handled = Len(rec.scraped)
            /\ (rec.pc \in {"close", "closing"} /\ rec.ctx = "catch") => rec.scraped = <<>>
            /\ \A j \in 1..Len(rec.errors) :
                 /\ rec.errors[j].error \in StoreCauses
                 /\ \E m \in 1..Len(rec.scraped) :
                      /\ rec.errors[j].title = rec.scraped[m].title
                      /\ rec.errors[j].url = rec.scraped[m].url
                 /\ \A l \in 1..Len(rec.errors) :
                      rec.errors[l].url = rec.errors[j].url => l = j

C10_SummaryOnceListingLoaded ==
    \A r \in Slots :
        (run[r].op = "oldest" /\ Finished(run[r]) /\ run[r].loaded)
            => run[r].resp.success /\ run[r].resp.message = "processed"

\* the browser handles a run is working with
InUse(rec) == {rec.b, rec.ab} \ {NoBrowser}

\* C11: no two runs under way at the same time use the same browser, so the
\* browser a run works with is never one that another run has closed.
C11_BrowserOwnedByOneRun ==
    /\ \A r \in Slots : \A q \in Slots \ {r} : InUse(run[r]) \cap InUse(run[q]) = {}
    /\ \A r \in Slots : InUse(run[r]) \subseteq live

\* ------------------------------------------------- SIGINT and SIGTERM
\* process.on('SIGINT' | 'SIGTERM'): the handler logs and calls
\* process.exit(0); every run of the process ends there, nothing else of the
\* program runs, and the process starts no further run
Signal(p) ==
    /\ \E q \in Slots : ServiceOf(q) = p /\ Active(run[q])
    /\ run' = [q \in Slots |->
                 IF ServiceOf(q) = p /\ Active(run[q])
                 THEN Canon([run[q] EXCEPT !.pc = "done",
                               !.resp = [status |-> 0, success |-> FALSE, message |-> "signal"]])
                 ELSE IF run[q].pc = "done" THEN IdleRun ELSE run[q]]
    /\ starts' = MaxStarts
    /\ hist' = NoHistory
    /\ UNCHANGED <<articles, browser, live, overlap, calc>>

NextSignal == Next \/ \E p \in Services : Signal(p)

SpecSignal == Init /\ [][NextSignal]_vars

\* C12: when SIGINT or SIGTERM ends a process whose run launched the browser,
\* the browser has been closed (WebScraperService.browser is null) when the
\* process exits.
C12_ClosedBeforeSignalExit ==
    \A r \in Slots :
        (Finished(run[r]) /\ run[r].resp.message = "signal" /\ run[r].launched)
            => browser[ServiceOf(r)] = NoBrowser

\* C13: a single-URL request that launched the browser has closed it
\* (WebScraperService.browser is null) when its response is sent: 201, 404
\* and 500 alike.
C13_SingleClosesBrowser ==
    \A r \in Slots :
        (run[r].op = "single" /\ Finished(run[r]) /\ run[r].launched /\ OthersIdle(r))
            => browser[ServiceOf(r)] = NoBrowser

\* ------------------------------------- single functions on their own
\* the program is at rest while one function is evaluated
Resting == <<articles, browser, live, run, starts, hist, overlap>>

AtRest ==
    /\ articles = {}
    /\ browser = [s \in Services |-> NoBrowser]
    /\ live = {}
    /\ run = [r \in Slots |-> IdleRun]
    /\ starts = 0
    /\ hist = NoHistory
    /\ overlap = FALSE

\* ---- the selection of scrapeOldestArticles and its for loop
\* anchors of a listing page, in document order
Anchors == <<"a1", "a2", "a3", "a4", "a5", "a6", "a7", "a8", "a9">>

\* the de-duplicated lists extractArticleLinks can return
DiscoveredLists ==
    {Pick(SubSeq(Anchors, 1, MaxDiscovered), keep) : keep \in SUBSET (1..MaxDiscovered)}

InitSelect ==
    /\ AtRest
    /\ calc \in {[f |-> "select", pc |-> "slice", articleLinks |-> l,
                  linksToScrape |-> <<>>, loaded |-> <<>>] : l \in DiscoveredLists}

\* const linksToScrape = articleLinks.slice(0, 5)
SelectLinks ==
    /\ calc.f = "select" /\ calc.pc = "slice"
    /\ LET sel == LinksToScrape(calc.articleLinks)
       IN calc' = [calc EXCEPT !.linksToScrape = sel,
                               !.pc = IF sel = <<>> THEN "end" ELSE "loop"]
    /\ UNCHANGED Resting

\* one iteration of for (const link of linksToScrape): scrapeArticleContent
\* loads the link, whatever comes of it
AttemptLink ==
    /\ calc.f = "select" /\ calc.pc = "loop"
    /\ LET n == Len(calc.loaded) + 1
       IN calc' = [calc EXCEPT !.loaded = Append(@, calc.linksToScrape[n]),
                               !.pc = IF n = Len(calc.linksToScrape) THEN "end" ELSE "loop"]
    /\ UNCHANGED Resting

NextSelect == SelectLinks \/ AttemptLink

SpecSelect == InitSelect /\ [][NextSelect]_vars

\* C14: of the discovered links the run loads the first min(5, length), in
\* discovered order, and never a link at position 6 or later.
C14_FirstFiveInOrder ==
    calc.f = "select" =>
        /\ Len(calc.loaded) <= Min(5, Len(calc.articleLinks))
        /\ \A j \in 1..Len(calc.loaded) : calc.loaded[j] = calc.articleLinks[j]
        /\ \A j \in 6..Len(calc.articleLinks) :
             \A l \in 1..Len(calc.loaded) : calc.loaded[l] # calc.articleLinks[j]
        /\ calc.pc = "end" => Len(calc.loaded) = Min(5, Len(calc.articleLinks))

\* seven links were discovered, the loop is over, five were loaded
C14_Witness ==
    /\ calc.f = "select" /\ calc.pc = "end"
    /\ Len(calc.articleLinks) >= 6
    /\ Len(calc.loaded) = 5

\* ---- strings: sequences of characters; the character references &lt; and
\* &gt; of HTML source are written as one symbol each
Rep(c, n) == [i \in 1..n |-> c]

IsSpace(c) == c = " "

IsLetter(c) == c \in {"a", "t"}

\* the characters of s at the positions in keep, in order
RECURSIVE Sel(_, _, _, _)
Sel(s, keep, lo, hi) ==
    IF lo > hi THEN <<>>
    ELSE IF lo = hi THEN (IF lo \in keep THEN <<s[lo]>> ELSE <<>>)
    ELSE LET mid == (lo + hi) \div 2
         IN Sel(s, keep, lo, mid) \o Sel(s, keep, mid + 1, hi)

Keep(s, keep) == Sel(s, keep, 1, Len(s))

\* String.prototype.trim
Trim(s) ==
    IF \A i \in 1..Len(s) : IsSpace(s[i]) THEN <<>>
    ELSE SubSeq(s,
                CHOOSE i \in 1..Len(s) :
                    ~IsSpace(s[i]) /\ \A k \in 1..(i - 1) : IsSpace(s[k]),
                CHOOSE i \in 1..Len(s) :
                    ~IsSpace(s[i]) /\ \A k \in (i + 1)..Len(s) : IsSpace(s[k]))

\* .replace(/\s+/g, ' '): of every run of white space one space is left
CollapseSpaces(s) ==
    LET first == {i \in 1..Len(s) : ~(IsSpace(s[i]) /\ i > 1 /\ IsSpace(s[i - 1]))}
    IN Keep(s, first)

\* position i of s is inside a tag: a "<" followed by a letter opens a tag,
\* the next ">" closes it, and a tag that is not closed before the end of the
\* input is dropped
InTag(s, i) ==
    \E j \in 1..i :
        /\ s[j] = "<" /\ j < Len(s) /\ IsLetter(s[j + 1])
        /\ \A k \in (j + 1)..(i - 1) : s[k] # ">"

\* a character reference decoded
Decoded(c) == IF c = "&lt;" THEN "<" ELSE IF c = "&gt;" THEN ">" ELSE c

\* cheerio.load(content) followed by $.text(): tags are dropped, character
\* references are decoded, a "<" that opens no tag is text
HtmlText(s) ==
    LET text == Keep(s, {i \in 1..Len(s) : ~InTag(s, i)})
    IN [i \in 1..Len(text) |-> Decoded(text[i])]

\* WebScraperService.cleanArticleContent; after /\s+/g no line break is left
\* for /\n\s*\n/g to match
cleanArticleContent(content) == Trim(CollapseSpaces(HtmlText(content)))

\* ---- scrapeArticleContent: from the page to the candidate
\* cleanContent.length < 100
MinContentLength == 100

\* articleData.title.substring(0, 500)
TitleLimit == 500

Untitled == <<"U", "n", "t", "i", "t", "l", "e", "d">>

\* titles the title selectors or document.title can give
Titles == {Rep("t", n) : n \in {0, 1} \cup ((TitleLimit - 1)..MaxTitleLen)}

DocTitles == {<<>>, <<"t", "a">>}

\* a run of text, bare, in an element, after white space, or escaped markup
\* and white space only
Contents ==
    UNION {{Rep("a", n),
            <<"<", "a", ">">> \o Rep("a", n) \o <<"<", "a", ">">>,
            <<" ", " ">> \o Rep("a", n) \o <<" ">>,
            Rep(" ", n),
            <<"<", "a", " ">> \o Rep("a", n) \o <<">">>}
           : n \in {0} \cup ((MinContentLength - 2)..MaxTextLen)}

NoCandidate == [null |-> TRUE, title |-> <<>>, content |-> <<>>]

\* title: title || document.title || 'Untitled'
ArticleDataTitle(found, docTitle) ==
    IF found # <<>> THEN found ELSE IF docTitle # <<>> THEN docTitle ELSE Untitled

\* the validation, the cleaning, the length check and the returned object
Candidate(title, content) ==
    IF title = <<>> \/ content = <<>> THEN NoCandidate
    ELSE LET cleanContent == cleanArticleContent(content)
         IN IF Len(cleanContent) < MinContentLength THEN NoCandidate
            ELSE [null |-> FALSE,
                  title |-> SubSeq(title, 1, Min(TitleLimit, Len(title))),
                  content |-> cleanContent]

InitExtract ==
    /\ AtRest
    /\ calc \in {[f |-> "extract", pc |-> "page", found |-> t, docTitle |-> d,
                  raw |-> c, title |-> <<>>, result |-> NoCandidate]
                 : t \in Titles, d \in DocTitles, c \in Contents}

\* page.evaluate and what follows it in scrapeArticleContent
ExtractArticle ==
    /\ calc.f = "extract" /\ calc.pc = "page"
    /\ LET title == ArticleDataTitle(calc.found, calc.docTitle)
       IN calc' = [calc EXCEPT !.pc = "returned", !.title = title,
                               !.result = Candidate(title, calc.raw)]
    /\ UNCHANGED Resting

NextExtract == ExtractArticle

SpecExtract == InitExtract /\ [][NextExtract]_vars

\* the title the page gives: what the title selectors found, else
\* document.title
PageTitle(found, docTitle) == IF found # <<>> THEN found ELSE docTitle

\* C15: scrapeArticleContent returns a candidate exactly when the title
\* extracted from the page is not empty, the raw content is not empty and the
\* cleaned content has at least 100 characters, and null in all other cases;
\* a returned title has at most 500 characters.
C15_CandidateIsValid ==
    (calc.f = "extract" /\ calc.pc = "returned") =>
        LET cleaned == cleanArticleContent(calc.raw)
            valid == /\ PageTitle(calc.found, calc.docTitle) # <<>>
                     /\ calc.raw # <<>>
                     /\ Len(cleaned) >= 100
        IN /\ calc.result.null <=> ~valid
           /\ ~calc.result.null =>
                /\ calc.result.title # <<>>
                /\ Len(calc.result.title) <= 500
                /\ calc.result.content = cleaned

\* ---- ArticleRepository.create and update: content, word_count, reading_time
\* Average reading speed: 200 words per minute
WordsPerMinute == 200

\* n words separated by single spaces
Words(n) == [i \in 1..(2 * n - 1) |-> IF i % 2 = 1 THEN "a" ELSE " "]

\* contents given to create and update: every short string of letters,
\* spaces and the substring javascript: (one symbol), and long texts
GivenContents ==
    UNION {[1..n -> {"a", " ", "js:"}] : n \in 0..MaxShort}
    \cup {Words(n) : n \in (WordsPerMinute - 1)..MaxWords}

GivenTitles == {<<" ", "t", "a">>}

\* sanitizeArticleContent on contents without script elements, iframes and
\* inline event handlers: javascript: is removed, the result is trimmed
sanitizeArticleContent(content) ==
    Trim(Keep(content, {i \in 1..Len(content) : content[i] # "js:"}))

\* a word count taken from the number of characters
calculateWordCountChars(content) == Len(Trim(content))

\* content.trim().split(/\s+/).filter(word => word.length > 0).length: the
\* trimmed string is cut at every run of white space; the one piece of an
\* empty string is empty and is filtered out
calculateWordCount(content) ==
    LET t == Trim(content)
    IN IF t = <<>> THEN 0
       ELSE Cardinality({i \in 2..Len(t) : IsSpace(t[i]) /\ ~IsSpace(t[i - 1])}) + 1

\* a reading time rounded down
calculateReadingTimeFloor(wordCount) == wordCount \div WordsPerMinute

\* Math.ceil(wordCount / 200)
calculateReadingTime(wordCount) ==
    (wordCount + WordsPerMinute - 1) \div WordsPerMinute

NoStored == [stored |-> FALSE, title |-> <<>>, content |-> <<>>, wordCount |-> 0, readingTime |-> 0]

NoData == [hasTitle |-> FALSE, title |-> <<>>, hasContent |-> FALSE, content |-> <<>>]

\* the row INSERTed by create
CreatedRow(data) ==
    LET sanitizedContent == sanitizeArticleContent(data.content)
        wordCount == calculateWordCount(sanitizedContent)
    IN [stored |-> TRUE, title |-> Trim(data.title), content |-> sanitizedContent,
        wordCount |-> wordCount, readingTime |-> calculateReadingTime(wordCount)]

\* an UPDATE that sets content and leaves word_count and reading_time alone
UpdatedRowStale(row, data) ==
    LET titled == IF data.hasTitle THEN [row EXCEPT !.title = Trim(data.title)] ELSE row
    IN IF data.hasContent
       THEN [titled EXCEPT !.content = sanitizeArticleContent(data.content)]
       ELSE titled

\* the row after UPDATE articles SET ... WHERE id = ?
UpdatedRow(row, data) ==
    LET titled == IF data.hasTitle THEN [row EXCEPT !.title = Trim(data.title)] ELSE row
    IN IF data.hasContent
       THEN LET sanitizedContent == sanitizeArticleContent(data.content)
                wordCount == calculateWordCount(sanitizedContent)
            IN [titled EXCEPT !.content = sanitizedContent,
                              !.wordCount = wordCount,
                              !.readingTime = calculateReadingTime(wordCount)]
       ELSE titled

InitStore ==
    /\ AtRest
    /\ calc = [f |-> "store", row |-> NoStored, writes |-> 0, last |-> "none", data |-> NoData]

\* ArticleRepository.create(data)
CreateArticle ==
    /\ calc.f = "store" /\ ~calc.row.stored /\ calc.writes < MaxWrites
    /\ \E t \in GivenTitles, c \in GivenContents :
         LET data == [hasTitle |-> TRUE, title |-> t, hasContent |-> TRUE, content |-> c]
         IN calc' = [calc EXCEPT !.row = CreatedRow(data), !.writes = @ + 1,
                                 !.last = "create", !.data = data]
    /\ UNCHANGED Resting

\* ArticleRepository.update(id, data) with a title, a content or both; with
\* neither it throws 'No fields to update'
UpdateArticle ==
    /\ calc.f = "store" /\ calc.row.stored /\ calc.writes < MaxWrites
    /\ \E ht \in BOOLEAN, hc \in BOOLEAN, t \in GivenTitles, c \in GivenContents :
         /\ ht \/ hc
         /\ LET data == [hasTitle |-> ht, title |-> IF ht THEN t ELSE <<>>,
                         hasContent |-> hc, content |-> IF hc THEN c ELSE <<>>]
            IN calc' = [calc EXCEPT !.row = UpdatedRow(calc.row, data), !.writes = @ + 1,
                                    !.last = "update", !.data = data]
    /\ UNCHANGED Resting

NextStore == CreateArticle \/ UpdateArticle

SpecStore == InitStore /\ [][NextStore]_vars

\* the words of a string: the places where a word ends
CountWords(content) ==
    Cardinality({i \in 1..Len(content) :
                   ~IsSpace(content[i]) /\ (i = Len(content) \/ IsSpace(content[i + 1]))})

\* readingTime is ceil(wordCount / 200)
IsCeilOfWords(readingTime, wordCount) ==
    /\ readingTime * 200 >= wordCount
    /\ (readingTime - 1) * 200 < wordCount
    /\ readingTime >= 0

\* C16: the row written by create has wordCount = the number of white-space
\* separated words of the stored content and readingTime =
\* ceil(wordCount / 200); for an empty or white-space-only content both are 0.
C16_CreateCountsWords ==
    (calc.f = "store" /\ calc.last = "create") =>
        /\ calc.row.wordCount = CountWords(calc.row.content)
        /\ IsCeilOfWords(calc.row.readingTime, calc.row.wordCount)
        /\ Trim(calc.data.content) = <<>> => calc.row.wordCount = 0 /\ calc.row.readingTime = 0

\* a content of 201 words: reading time 2
C16_Witness ==
    /\ calc.f = "store" /\ calc.last = "create"
    /\ calc.row.wordCount = 201
    /\ calc.row.readingTime = 2

\* the state part of C17: the stored article has wordCount = the words of its
\* content and readingTime = ceil(wordCount / 200)
C17_RowConsistent ==
    (calc.f = "store" /\ calc.row.stored) =>
        /\ calc.row.wordCount = CountWords(calc.row.content)
        /\ IsCeilOfWords(calc.row.readingTime, calc.row.wordCount)

\* an update without content leaves content, wordCount and readingTime alone
C17_TitleUpdateKeepsCounts ==
    (calc.f = "store" /\ calc'.last = "update" /\ ~calc'.data.hasContent) =>
        /\ calc'.row.content = calc.row.content
        /\ calc'.row.wordCount = calc.row.wordCount
        /\ calc'.row.readingTime = calc.row.readingTime

\* C17: after any sequence of create and update the stored article has
\* wordCount = countWords(content) and readingTime = ceil(wordCount / 200): an
\* update of the content recomputes both, an update without content leaves
\* both unchanged.
C17_CountsFollowContent ==
    /\ []C17_RowConsistent
    /\ [][C17_TitleUpdateKeepsCounts]_vars

\* an update replaced a content of other length by one of 201 words
C17_Witness ==
    /\ calc.f = "store" /\ calc.last = "update" /\ calc.data.hasContent
    /\ calc.writes >= 2
    /\ calc.row.wordCount = 201
    /\ calc.row.readingTime = 2

\* ---- cleanArticleContent applied to its own result
HtmlChars == {"a", " ", "<", ">", "&lt;", "&gt;"}

HtmlInputs == UNION {[1..n -> HtmlChars] : n \in 0..MaxHtmlLen}

InitClean ==
    /\ AtRest
    /\ calc \in {[f |-> "clean", pc |-> "input", x |-> x, once |-> <<>>, twice |-> <<>>]
                 : x \in HtmlInputs}

\* cleanArticleContent(x)
CleanOnce ==
    /\ calc.f = "clean" /\ calc.pc = "input"
    /\ calc' = [calc EXCEPT !.pc = "once", !.once = cleanArticleContent(calc.x)]
    /\ UNCHANGED Resting

\* cleanArticleContent(cleanArticleContent(x))
CleanTwice ==
    /\ calc.f = "clean" /\ calc.pc = "once"
    /\ calc' = [calc EXCEPT !.pc = "twice", !.twice = cleanArticleContent(calc.once)]
    /\ UNCHANGED Resting

NextClean == CleanOnce \/ CleanTwice

SpecClean == InitClean /\ [][NextClean]_vars

\* C18: cleanArticleContent(cleanArticleContent(x)) = cleanArticleContent(x)
\* for every x, escaped markup included.
C18_CleanIsIdempotent ==
    (calc.f = "clean" /\ calc.pc = "twice") => calc.twice = calc.once

\* C19: when the page load of a selected article other than the first is
\* about to start, the politeness delay has elapsed since the previous
\* attempt ended, whether that attempt gave a candidate, gave no result or
\* raised.
C19_DelayBetweenArticles ==
    \A r \in Slots :
        (/\ run[r].op \in BatchOps
         /\ run[r].pc \in {"sac_init", "sac_launch", "sac_load"}
         /\ run[r].i > 1)
            => run[r].waited

\* C20: a batch run has loaded a page of the source site only after
\* checkRobotsTxt was called and allowed it.
C20_RobotsCheckedAndAllowed ==
    \A r \in Slots :
        (run[r].op \in BatchOps /\ run[r].loaded) => run[r].robots = "allowed"

\* why scrapeArticle could not turn a URL into a candidate
NoCandidateCauses == {"launch", "closed browser", "navfail", "short", "empty"}

RobotsLines == {"User-agent: *", "user-agent: googlebot", "Disallow: /",
                "disallow: /private", "Allow: /"}

RobotsTexts == UNION {[1..n -> RobotsLines] : n \in 0..MaxRobotsLines}

\* what axios.get gives: a rejection, a body that is no string, a text
RobotsReplies == {"unreachable", "not text", "text"}

\* String.prototype.toLowerCase on a line
LowerCase(line) ==
    IF line = "User-agent: *" THEN "user-agent: *"
    ELSE IF line = "Disallow: /" THEN "disallow: /"
    ELSE IF line = "Allow: /" THEN "allow: /"
    ELSE line

\* line.includes(needle), for the two needles of checkRobotsTxt
LineIncludes(line, needle) ==
    \/ needle = "user-agent: *" /\ line = "user-agent: *"
    \/ needle = "disallow: /" /\ line \in {"disallow: /", "disallow: /private"}

\* robotsContent.includes(needle): no needle spans two lines
Includes(text, needle) ==
    \E i \in 1..Len(text) : LineIncludes(LowerCase(text[i]), needle)

\* a checkRobotsTxt without its catch block
RobotsCheckNoCatch(validBase, reply, text) ==
    IF ~validBase \/ reply # "text" THEN "raised"
    ELSE checkRobotsTxt(TRUE, Includes(text, "user-agent: *"), Includes(text, "disallow: /"))

\* checkRobotsTxt(baseUrl): new URL, axios.get and toLowerCase are inside the
\* try; the catch returns true
RobotsCheck(validBase, reply, text) ==
    IF ~validBase \/ reply # "text" THEN checkRobotsTxt(FALSE, FALSE, FALSE)
    ELSE checkRobotsTxt(TRUE, Includes(text, "user-agent: *"), Includes(text, "disallow: /"))

InitRobots ==
    /\ AtRest
    /\ calc \in {[f |-> "robots", pc |-> "called", validBase |-> v, reply |-> a,
                  text |-> IF v /\ a = "text" THEN t ELSE <<>>, result |-> "pending"]
                 : v \in BOOLEAN, a \in RobotsReplies, t \in RobotsTexts}

\* await scraperService.checkRobotsTxt(baseUrl)
CheckRobots ==
    /\ calc.f = "robots" /\ calc.pc = "called"
    /\ calc' = [calc EXCEPT !.pc = "resolved",
                            !.result = RobotsCheck(calc.validBase, calc.reply, calc.text)]
    /\ UNCHANGED Resting

NextRobots == CheckRobots

SpecRobots == InitRobots /\ [][NextRobots]_vars

\* C22: checkRobotsTxt resolves to a boolean (allowed or disallowed) for every
\* base URL and every reply, and to true when robots.txt cannot be fetched or
\* read.
C22_RobotsCheckResolves ==
    (calc.f = "robots" /\ calc.pc = "resolved") =>
        /\ calc.result \in {"allowed", "disallowed"}
        /\ (~calc.validBase \/ calc.reply # "text") => calc.result = "allowed"

\* the domain cannot be reached: true
C22_Witness ==
    /\ calc.f = "robots" /\ calc.pc = "resolved"
    /\ calc.validBase /\ calc.reply = "unreachable"
    /\ calc.result = "allowed"

\* the browser processes of an instance that were launched and not closed; a
\* process of the script's instance is the one its browser field holds
LiveOf(s) ==
    IF s = "cli" THEN live \cap {browser["cli"]} ELSE live \ {browser["cli"]}

\* C23: at any time each WebScraperService instance has at most one browser
\* process launched and not yet closed, overlapping initBrowser calls
\* included.
C23_OneBrowserPerInstance ==
    \A s \in Services : Cardinality(LiveOf(s)) <= 1

\* the run r takes the step its position allows
Steps(r) == Active(run[r]) /\ run'[r] # run[r]

\* C24: closeBrowser can be called any number of times: with no browser open
\* it changes nothing and returns; a call that closed the browser leaves the
\* handle null and the process closed, so that the next closeBrowser finds
\* nothing to close and the next initBrowser launches a browser that was not
\* open before.
C24_CloseBrowserRepeatable ==
    [][\A r \in Slots :
        LET s == ServiceOf(r) IN
        /\ (run[r].pc = "close" /\ browser[s] = NoBrowser /\ Steps(r))
              => /\ browser' = browser
                 /\ live' = live
                 /\ run'[r].pc # "closing"
                 /\ run'[r].cause = run[r].cause
        /\ (run[r].pc = "closing" /\ Steps(r))
              => /\ browser'[s] = NoBrowser
                 /\ run[r].h \notin live'
        /\ (run[r].pc \in {"soa_init", "sac_init"} /\ browser[s] = NoBrowser
               /\ Steps(r))
              => run'[r].pc \in {"soa_launch", "sac_launch"}
        /\ (run[r].pc \in {"soa_launch", "sac_launch"} /\ Steps(r)
               /\ live' # live)
              => /\ browser'[s] \notin live \cup {NoBrowser}
                 /\ live' = live \cup {browser'[s]}]_vars

\* a request whose launch failed calls closeBrowser on the instance whose
\* browser the request before it closed
C24_Witness ==
    \E r \in Slots :
        /\ run[r].pc = "close"
        /\ browser[ServiceOf(r)] = NoBrowser
        /\ run[r].before # NoHistory
        /\ ~overlap

\* C25: scrapeOldestArticles raises, and the run fails, only when the
\* browser could not be launched or the base listing URL could not be
\* loaded; a last page that cannot be found or reached leaves the run on the
\* page it has. Stated for requests that do not overlap.
C25_FailedOnlyOnLaunchOrBase ==
    \A r \in Slots :
        (run[r].op \in BatchOps /\ ~overlap /\ run[r].fatal # "")
            => run[r].fatal \in {"launch", "navigation"}

\* ------------------------------------------------------- findLastPage
\* URLs and href attributes are sequences of tokens; "http" is one token, so
\* that "https" is <<"http", "s">> and a path that begins with the letters
\* http begins with the token too
BaseUrl == <<"http", "s", ":", "//", "host", "/", "blogs">>

AbsHref == <<"http", "s", ":", "//", "host", "/", "blogs", "/", "page", "/", "9">>
RootHref == <<"/", "blogs", "/", "page", "/", "9">>
RelHref == <<"page", "/", "9">>
HttpRelHref == <<"http", "docs", "/", "page", "/", "9">>
BadHref == <<"//">>

\* the paginationSelectors, in the order of the loop
PaginationSelectors ==
    <<"a[aria-label=Last page]", ".pagination a:last-child",
      ".page-numbers:last-child", "a[title*=last]", "a[title*=Last]">>

\* selectors whose element exists on a generated page, anchors of the
\* page-number query
MaxPresent == 2
MaxAnchors == 2

\* the TypeError of new URL
UrlError == <<"TypeError">>

\* href.startsWith('http')
StartsWithHttp(href) == Len(href) > 0 /\ href[1] = "http"

\* the position of the ":" that ends a scheme, 0 when href has none
SchemeEnd(href) ==
    IF \E i \in 2..Len(href) :
           href[i] = ":" /\ \A j \in 1..(i - 1) : href[j] \notin {"/", "//", ":"}
    THEN CHOOSE i \in 2..Len(href) :
           href[i] = ":" /\ \A j \in 1..(i - 1) : href[j] \notin {"/", "//", ":"}
    ELSE 0

\* scheme, "://" and host of an absolute URL
Origin(url) == SubSeq(url, 1, SchemeEnd(url) + 2)

\* new URL(href, base).toString(): an href with a scheme stands, "//host/.."
\* takes the scheme of the base and needs a host, "/path" replaces the path
\* and any other href replaces the last segment of the base path; an href
\* that cannot be parsed raises
NewUrl(href, base) ==
    IF SchemeEnd(href) > 0 THEN href
    ELSE IF Len(href) > 0 /\ href[1] = "//"
    THEN IF Len(href) = 1 THEN UrlError
         ELSE SubSeq(base, 1, SchemeEnd(base)) \o href
    ELSE IF Len(href) > 0 /\ href[1] = "/" THEN Origin(base) \o href
    ELSE Origin(base) \o <<"/">> \o href

\* href.startsWith('http') ? href : new URL(href, this.baseUrl).toString()
ToAbsolute(href) == IF StartsWithHttp(href) THEN href ELSE NewUrl(href, BaseUrl)

\* what page.$(selector) and getAttribute('href') give for one selector
SelectorHrefs == {<<>>, AbsHref, RootHref, HttpRelHref, BadHref}
SelectorOutcomes ==
    {[kind |-> "absent", href |-> <<>>], [kind |-> "raise", href |-> <<>>],
     [kind |-> "no href", href |-> <<>>]}
        \cup {[kind |-> "href", href |-> h] : h \in SelectorHrefs}

Absent == [kind |-> "absent", href |-> <<>>]

SelectorPages ==
    {p \in [1..Len(PaginationSelectors) -> SelectorOutcomes] :
        Cardinality({i \in DOMAIN p : p[i] # Absent}) <= MaxPresent}

\* the a[href*="page"] anchors as the $$eval callback sees them
PageAnchors ==
    {[href |-> <<>>, text |-> "2"], [href |-> RootHref, text |-> "next"],
     [href |-> RootHref, text |-> "1"], [href |-> RelHref, text |-> "2"],
     [href |-> BadHref, text |-> "2"]}
AnchorLists == UNION {[1..n -> PageAnchors] : n \in 0..MaxAnchors}

\* /\d+/.test(text) and parseInt of the match
HasDigits(text) == text \in {"1", "2"}
NumOf(text) == IF text = "2" THEN 2 ELSE 1

\* the href of pageNumbers[0]: the anchors with an href and a number,
\* sorted by number, largest first, equal numbers in document order
TopAnchor(anchors) ==
    LET kept == {i \in DOMAIN anchors :
                    anchors[i].href # <<>> /\ HasDigits(anchors[i].text)}
    IN IF kept = {} THEN <<>>
       ELSE anchors[CHOOSE i \in kept :
                \A j \in kept :
                    \/ NumOf(anchors[j].text) < NumOf(anchors[i].text)
                    \/ NumOf(anchors[j].text) = NumOf(anchors[i].text) /\ i <= j].href

NoLastPage == <<"null">>

\* the fallback after the loop; a rejection of $$eval or a TypeError of
\* new URL reaches the outer catch, which returns null
ByPageNumbers(evalRaises, anchors) ==
    IF evalRaises \/ TopAnchor(anchors) = <<>> THEN NoLastPage
    ELSE IF ToAbsolute(TopAnchor(anchors)) = UrlError THEN NoLastPage
    ELSE ToAbsolute(TopAnchor(anchors))

\* the loop from selector i on: an element with a non-empty href returns;
\* whatever raises inside the inner try is swallowed and the next selector
\* is tried
RECURSIVE FromSelector(_, _, _, _)
FromSelector(i, page, evalRaises, anchors) ==
    IF i > Len(PaginationSelectors) THEN ByPageNumbers(evalRaises, anchors)
    ELSE IF page[i].kind = "href" /\ page[i].href # <<>>
            /\ ToAbsolute(page[i].href) # UrlError
    THEN ToAbsolute(page[i].href)
    ELSE FromSelector(i + 1, page, evalRaises, anchors)

\* findLastPage(page)
findLastPage(page, evalRaises, anchors) == FromSelector(1, page, evalRaises, anchors)

InitLastPage ==
    /\ AtRest
    /\ calc \in {[f |-> "lastPage", pc |-> "called", page |-> p, evalRaises |-> e,
                  anchors |-> IF e THEN <<>> ELSE a, result |-> <<"pending">>]
                 : p \in SelectorPages, e \in BOOLEAN, a \in AnchorLists}

\* await this.findLastPage(page)
FindLastPage ==
    /\ calc.f = "lastPage" /\ calc.pc = "called"
    /\ calc' = [calc EXCEPT !.pc = "resolved",
                            !.result = findLastPage(calc.page, calc.evalRaises, calc.anchors)]
    /\ UNCHANGED Resting

NextLastPage == FindLastPage

SpecLastPage == InitLastPage /\ [][NextLastPage]_vars

\* an absolute URL: a scheme, "://" and a host
IsAbsoluteUrl(url) ==
    /\ SchemeEnd(url) > 0
    /\ Len(url) >= SchemeEnd(url) + 2
    /\ url[SchemeEnd(url) + 1] = "//"

\* the heuristics of a page that yield a non-empty href, by position; the
\* page-number query is the one after the selectors
Yielding(c) ==
    {i \in 1..Len(PaginationSelectors) : c.page[i].kind = "href" /\ c.page[i].href # <<>>}
        \cup (IF ~c.evalRaises /\ TopAnchor(c.anchors) # <<>>
              THEN {Len(PaginationSelectors) + 1} ELSE {})

FirstYielding(c) == CHOOSE i \in Yielding(c) : \A j \in Yielding(c) : i <= j

YieldedHref(c) ==
    IF FirstYielding(c) <= Len(PaginationSelectors)
    THEN c.page[FirstYielding(c)].href ELSE TopAnchor(c.anchors)

\* a heuristic that was tried raised: a selector before the yielding one,
\* or the resolution of the href that was yielded
RaisedBefore(c, last) ==
    \/ \E i \in 1..Len(PaginationSelectors) : i < last /\ c.page[i].kind = "raise"
    \/ NewUrl(YieldedHref(c), BaseUrl) = UrlError

\* C26: findLastPage never raises; it returns the href of the first heuristic
\* in order that yields a non-empty one, as an absolute URL resolved against
\* the base URL, and null when no heuristic yields one or a heuristic raised.
C26_FirstHeuristicAbsoluteOrNull ==
    (calc.f = "lastPage" /\ calc.pc = "resolved") =>
        /\ calc.result # UrlError
        /\ IF Yielding(calc) = {}
           THEN calc.result = NoLastPage
           ELSE IF RaisedBefore(calc, FirstYielding(calc))
           THEN calc.result = NoLastPage
           ELSE /\ calc.result # NoLastPage
                /\ IsAbsoluteUrl(calc.result)
                /\ calc.result = NewUrl(YieldedHref(calc), BaseUrl)

\* ------------------------------------------------- extractArticleLinks
\* the articleSelectors, in the order of the loop
ArticleSelectors ==
    <<"article a[href*=/blog]", ".blog-post a", ".post-title a", "h2 a[href*=/blog]",
      "h3 a[href*=/blog]", ".entry-title a", "a[href*=/blogs/]">>

\* the prefix of line 208
SitePrefix == <<"http", "s://www.beyondchats.com">>

\* href attributes, "/blog" being one token: an absolute article URL, the
\* same article and another one by path, a link elsewhere and an anchor
\* without href (null)
ArticleAbs == <<"http", "s://www.beyondchats.com", "/blog", "s/a">>
ArticleRel == <<"/blog", "s/a">>
OtherRel == <<"/blog", "s/b">>
AboutRel == <<"/about">>
NoHref == <<>>
ArticleHrefs == {ArticleAbs, ArticleRel, OtherRel, AboutRel, NoHref}

\* what the selectors find on a generated page, all selectors together
MaxOnPage == 3

\* one thing a page holds for a selector: an element it matches, or the
\* rejection of its $$eval
PageItems ==
    [sel : 1..Len(ArticleSelectors), kind : {"a"}, href : ArticleHrefs]
        \cup [sel : 1..Len(ArticleSelectors), kind : {"raise"}, href : {NoHref}]

\* pages: the items in selector order, elements of one selector in document
\* order
ArticlePages ==
    UNION {{p \in [1..n -> PageItems] : \A i \in 1..(n - 1) : p[i].sel <= p[i + 1].sel}
           : n \in 0..MaxOnPage}

\* page.$$eval(selector, ...) rejects
EvalRaises(page, k) == \E i \in DOMAIN page : page[i].sel = k /\ page[i].kind = "raise"

\* href.includes('/blog')
IncludesBlog(href) == \E i \in DOMAIN href : href[i] = "/blog"

\* href?.startsWith('http') ? href : `https://www.beyondchats.com${href}`
ResolveLink(href) == IF StartsWithHttp(href) THEN href ELSE SitePrefix \o href

\* the $$eval callback: getAttribute, the filter and the map
FoundLinks(page, k) ==
    LET OfSelector(item) ==
            item.sel = k /\ item.href # NoHref /\ IncludesBlog(item.href)
        kept == SelectSeq(page, OfSelector)
    IN [i \in 1..Len(kept) |-> ResolveLink(kept[i].href)]

\* [...new Set(links)]: insertion order, first occurrence kept
SetInOrder(links) ==
    LET First(i) == \A j \in 1..(i - 1) : links[j] # links[i]
        firsts == {i \in DOMAIN links : First(i)}
        Nth(n) == CHOOSE i \in firsts : Cardinality({j \in firsts : j <= i}) = n
    IN [n \in 1..Cardinality(firsts) |-> links[Nth(n)]]

\* a loop without its break: links is overwritten by every later selector
\* that finds something
RECURSIVE FromArticleSelectorNoBreak(_, _, _)
FromArticleSelectorNoBreak(k, page, links) ==
    IF k > Len(ArticleSelectors) THEN links
    ELSE IF EvalRaises(page, k) \/ Len(FoundLinks(page, k)) = 0
    THEN FromArticleSelectorNoBreak(k + 1, page, links)
    ELSE FromArticleSelectorNoBreak(k + 1, page, FoundLinks(page, k))

\* the loop from selector k on: the first selector that finds links ends it;
\* a selector whose $$eval rejects is passed over by the inner catch
RECURSIVE FromArticleSelector(_, _, _)
FromArticleSelector(k, page, links) ==
    IF k > Len(ArticleSelectors) THEN links
    ELSE IF EvalRaises(page, k) \/ Len(FoundLinks(page, k)) = 0
    THEN FromArticleSelector(k + 1, page, links)
    ELSE FoundLinks(page, k)

\* extractArticleLinks(page)
extractArticleLinks(page) == SetInOrder(FromArticleSelector(1, page, <<>>))

InitLinks ==
    /\ AtRest
    /\ calc \in {[f |-> "links", pc |-> "called", page |-> p, result |-> <<>>]
                 : p \in ArticlePages}

\* await this.extractArticleLinks(page)
ExtractLinks ==
    /\ calc.f = "links" /\ calc.pc = "called"
    /\ calc' = [calc EXCEPT !.pc = "resolved", !.result = extractArticleLinks(calc.page)]
    /\ UNCHANGED Resting

NextLinks == ExtractLinks

SpecLinks == InitLinks /\ [][NextLinks]_vars

\* the selectors that produce at least one match on the page
Matching(page) ==
    {k \in 1..Len(ArticleSelectors) :
        ~EvalRaises(page, k) /\ Len(FoundLinks(page, k)) > 0}

FirstMatching(page) == CHOOSE k \in Matching(page) : \A j \in Matching(page) : k <= j

\* position of the first occurrence of a link
FirstSeen(links, u) == CHOOSE i \in DOMAIN links : links[i] = u /\ \A j \in 1..(i - 1) : links[j] # u

\* result holds the links of strategy k and nothing else, each once, in the
\* order in which they are first seen
LinksOfStrategy(result, page, k) ==
    LET found == FoundLinks(page, k)
    IN /\ {result[i] : i \in DOMAIN result} = {found[i] : i \in DOMAIN found}
       /\ \A i, j \in DOMAIN result : i < j => result[i] # result[j]
       /\ \A i, j \in DOMAIN result :
             i < j => FirstSeen(found, result[i]) < FirstSeen(found, result[j])

\* C27 as stated: the links of the first strategy that matches, and the
\* empty list when none matches or when a strategy that was tried raised.
C27_EmptyWhenAStrategyRaises ==
    (calc.f = "links" /\ calc.pc = "resolved") =>
        IF Matching(calc.page) = {}
           \/ \E k \in 1..Len(ArticleSelectors) :
                 EvalRaises(calc.page, k) /\ k < FirstMatching(calc.page)
        THEN calc.result = <<>>
        ELSE LinksOfStrategy(calc.result, calc.page, FirstMatching(calc.page))

\* C27: extractArticleLinks always returns a list; it holds the links of
\* exactly one strategy, the first in order that produces at least one
\* match, a strategy that raises counting as one without a match; no link
\* appears twice and the links keep first-seen order; the list is empty when
\* no strategy matches.
C27_FirstMatchingStrategyOnly ==
    (calc.f = "links" /\ calc.pc = "resolved") =>
        IF Matching(calc.page) = {}
        THEN calc.result = <<>>
        ELSE LinksOfStrategy(calc.result, calc.page, FirstMatching(calc.page))

\* the first strategy raises, the second finds an article by its path and a
\* later strategy finds a link of its own
C27_Witness ==
    /\ calc.f = "links" /\ calc.pc = "resolved"
    /\ EvalRaises(calc.page, 1)
    /\ Cardinality(Matching(calc.page)) = 2
    /\ FirstMatching(calc.page) = 2
    /\ calc.result = <<ArticleAbs>>

\* the positions of a run inside scrapeOldestArticles, its listing page open
InListing == {"sac_init", "sac_launch", "sac_load", "soa_finally"}

MaxStatements == 2

\* what the driver does in one call of executeTransaction: is the pool
\* there, which of getConnection, beginTransaction, commit and rollback
\* resolve, how many statements the callback executes and which one fails
\* (0: none; statements + 1: the INSERT that records the migration)
TxPlans ==
    {[pool |-> p, conn |-> g, begin |-> b, statements |-> n, failAt |-> k,
      commit |-> c, rollback |-> rb]
     : p \in BOOLEAN, g \in BOOLEAN, b \in BOOLEAN, n \in 0..MaxStatements,
       k \in 0..(MaxStatements + 1), c \in BOOLEAN, rb \in BOOLEAN}

\* a call of executeTransaction: the connection it holds, the calls it has
\* made on it, the error its catch block caught and what it settles with
TxCall(plan) ==
    [f |-> "tx", pc |-> "called", plan |-> plan, held |-> FALSE, begun |-> FALSE,
     executed |-> 0, commits |-> 0, rollbacks |-> 0, releases |-> 0,
     caught |-> "", outcome |-> "pending", thrown |-> ""]

\* getDatabase() and db.getConnection(), both before the try block
GotConnection(c) ==
    IF ~c.plan.pool
    THEN [c EXCEPT !.pc = "settled", !.outcome = "raised", !.thrown = "not initialized"]
    ELSE IF ~c.plan.conn
    THEN [c EXCEPT !.pc = "settled", !.outcome = "raised", !.thrown = "connection"]
    ELSE [c EXCEPT !.pc = "begin", !.held = TRUE]

\* await connection.beginTransaction()
Begun(c) ==
    IF c.plan.begin THEN [c EXCEPT !.pc = "callback", !.begun = TRUE]
    ELSE [c EXCEPT !.pc = "rollback", !.caught = "begin"]

\* one await connection.execute(...) of the callback, or its return
Executed(c) ==
    IF c.executed = c.plan.statements + 1 THEN [c EXCEPT !.pc = "commit"]
    ELSE IF c.executed + 1 = c.plan.failAt
    THEN [c EXCEPT !.pc = "rollback", !.caught = "callback"]
    ELSE [c EXCEPT !.executed = @ + 1]

\* await connection.commit()
Committed(c) ==
    IF c.plan.commit THEN [c EXCEPT !.pc = "release", !.commits = @ + 1]
    ELSE [c EXCEPT !.pc = "rollback", !.caught = "commit"]

\* a catch block outside the try/finally: a rollback that raises leaves
\* the function before the release
RolledBackNoFinally(c) ==
    IF c.plan.rollback
    THEN [c EXCEPT !.pc = "release", !.rollbacks = @ + 1, !.thrown = c.caught]
    ELSE [c EXCEPT !.pc = "settled", !.rollbacks = @ + 1, !.thrown = "rollback",
                   !.outcome = "raised"]

\* the catch block: await connection.rollback(), then throw error; when
\* rollback raises, its error is the one that leaves the block
RolledBack(c) ==
    IF c.plan.rollback
    THEN [c EXCEPT !.pc = "release", !.rollbacks = @ + 1, !.thrown = c.caught]
    ELSE [c EXCEPT !.pc = "release", !.rollbacks = @ + 1, !.thrown = "rollback"]

\* the finally block: connection.release(), then the return or the throw
Released(c) ==
    [c EXCEPT !.pc = "settled", !.releases = @ + 1, !.held = FALSE,
              !.outcome = IF c.thrown = "" THEN "returned" ELSE "raised"]

InitTx ==
    /\ AtRest
    /\ calc \in {TxCall(plan) : plan \in TxPlans}

TxGetConnection ==
    /\ calc.f = "tx" /\ calc.pc = "called"
    /\ calc' = GotConnection(calc)
    /\ UNCHANGED Resting

TxBegin ==
    /\ calc.f = "tx" /\ calc.pc = "begin"
    /\ calc' = Begun(calc)
    /\ UNCHANGED Resting

TxCallback ==
    /\ calc.f = "tx" /\ calc.pc = "callback"
    /\ calc' = Executed(calc)
    /\ UNCHANGED Resting

TxCommit ==
    /\ calc.f = "tx" /\ calc.pc = "commit"
    /\ calc' = Committed(calc)
    /\ UNCHANGED Resting

TxRollback ==
    /\ calc.f = "tx" /\ calc.pc = "rollback"
    /\ calc' = RolledBack(calc)
    /\ UNCHANGED Resting

TxRelease ==
    /\ calc.f = "tx" /\ calc.pc = "release"
    /\ calc' = Released(calc)
    /\ UNCHANGED Resting

NextTx ==
    \/ TxGetConnection
    \/ TxBegin
    \/ TxCallback
    \/ TxCommit
    \/ TxRollback
    \/ TxRelease

SpecTx == InitTx /\ [][NextTx]_vars

\* C29: a call of executeTransaction that got a connection settles with
\* exactly one of a commit (and then it returns) or a rollback (and then it
\* raises, the caught error when the rollback resolved), and with the
\* connection released exactly once, also when the rollback raised; the
\* connection is never released twice and never committed after a rollback.
C29_CommitOrRollbackThenRelease ==
    calc.f = "tx" =>
        /\ calc.releases <= 1
        /\ calc.commits + calc.rollbacks <= 1
        /\ (calc.pc = "settled" /\ calc.thrown \notin {"not initialized", "connection"})
              => /\ calc.releases = 1 /\ ~calc.held
                 /\ calc.commits + calc.rollbacks = 1
                 /\ calc.outcome = "returned" <=> calc.commits = 1
                 /\ calc.outcome = "raised" <=> calc.rollbacks = 1
                 /\ (calc.rollbacks = 1 /\ calc.thrown # "rollback")
                       => calc.thrown = calc.caught /\ calc.caught # ""

\* the commit raised and then the rollback raised: the connection is back
\* in the pool
C29_Witness ==
    /\ calc.f = "tx" /\ calc.pc = "settled"
    /\ calc.caught = "commit" /\ calc.thrown = "rollback"
    /\ calc.executed = MaxStatements + 1
    /\ calc.releases = 1

\* ------------------------------------------- the module-level pool
\* calls of initializeDatabase, getDatabase and closeDatabase in one process
MaxDbCalls == 6

NoPool == 0

\* pool: the module variable (a pool number, NoPool for null); created: pools
\* made by mysql.createPool; tested: pools whose test connection answered
\* the ping; ended: pools closed by pool.end(); last: the latest call
PoolState(pool, created, tested, ended, op, result, returned, calls) ==
    [f |-> "pool", pool |-> pool, created |-> created, tested |-> tested,
     ended |-> ended, last |-> [op |-> op, result |-> result, pool |-> returned],
     calls |-> calls]

InitPool ==
    /\ AtRest
    /\ calc = PoolState(NoPool, 0, {}, {}, "none", "none", NoPool, 0)

\* initializeDatabase(): an existing pool is returned as it is; otherwise
\* pool is assigned the new pool before the test connection, and the catch
\* block rethrows
InitializeDatabase ==
    /\ calc.f = "pool" /\ calc.calls < MaxDbCalls
    /\ \E connected \in BOOLEAN, pinged \in BOOLEAN :
          IF calc.pool # NoPool
          THEN calc' = [calc EXCEPT !.calls = @ + 1,
                          !.last = [op |-> "initialize", result |-> "returned",
                                    pool |-> calc.pool]]
          ELSE LET new == calc.created + 1
               IN IF connected /\ pinged
                  THEN calc' = [calc EXCEPT !.calls = @ + 1, !.pool = new,
                                  !.created = new, !.tested = @ \cup {new},
                                  !.last = [op |-> "initialize", result |-> "returned",
                                            pool |-> new]]
                  ELSE calc' = [calc EXCEPT !.calls = @ + 1, !.pool = new,
                                  !.created = new,
                                  !.last = [op |-> "initialize", result |-> "raised",
                                            pool |-> NoPool]]
    /\ UNCHANGED Resting

\* getDatabase()
GetDatabase ==
    /\ calc.f = "pool" /\ calc.calls < MaxDbCalls
    /\ calc' = [calc EXCEPT !.calls = @ + 1,
                  !.last = IF calc.pool = NoPool
                           THEN [op |-> "get", result |-> "Database not initialized",
                                 pool |-> NoPool]
                           ELSE [op |-> "get", result |-> "returned", pool |-> calc.pool]]
    /\ UNCHANGED Resting

\* closeDatabase(): pool = null follows await pool.end(), which may raise
CloseDatabase ==
    /\ calc.f = "pool" /\ calc.calls < MaxDbCalls
    /\ \E endOk \in BOOLEAN :
          IF calc.pool = NoPool
          THEN calc' = [calc EXCEPT !.calls = @ + 1,
                          !.last = [op |-> "close", result |-> "returned", pool |-> NoPool]]
          ELSE IF endOk
          THEN calc' = [calc EXCEPT !.calls = @ + 1, !.pool = NoPool,
                          !.ended = @ \cup {calc.pool},
                          !.last = [op |-> "close", result |-> "returned", pool |-> NoPool]]
          ELSE calc' = [calc EXCEPT !.calls = @ + 1,
                          !.last = [op |-> "close", result |-> "raised", pool |-> NoPool]]
    /\ UNCHANGED Resting

NextPool ==
    \/ InitializeDatabase
    \/ GetDatabase
    \/ CloseDatabase

SpecPool == InitPool /\ [][NextPool]_vars

\* C30: the pool variable holds a pool only if an initializeDatabase call
\* tested it successfully: after a call that raised it is null, getDatabase
\* raises 'Database not initialized', and the next initializeDatabase makes
\* and tests a new pool rather than return the failed one.
C30_PoolOnlyAfterSuccess ==
    calc.f = "pool" =>
        /\ calc.pool # NoPool => calc.pool \in calc.tested
        /\ (calc.last.result = "returned" /\ calc.last.op \in {"initialize", "get"})
              => calc.last.pool \in calc.tested

====
